---- MODULE Spec2Model ----
(***************************************************************************)
(* Legacy validation layer of rally (rally/task/validation.py) and its use *)
(* by the Glance scenarios (rally/plugins/openstack/scenarios/glance).     *)
(*                                                                         *)
(* Python values are modelled as records tagged with a "kind" field, dicts *)
(* as functions whose DOMAIN is the set of keys, lists and tuples as       *)
(* sequences, and strings built by formatting as sequences of tokens (the  *)
(* literal pieces of the format string and the substituted names), so that *)
(* concatenation, join and format are computed, not assumed.               *)
(***************************************************************************)
EXTENDS Integers, Sequences, FiniteSets, TLC

\* ---------------------------------------------------------------- bounds
MaxAttach == 3      \* decorators stacked on the scenario classes, in total
MaxUsers == 2       \* user credentials of the platform
MaxArgs == 2        \* bound positional arguments of one rule

\* ------------------------------------------------------- python values
NoneVal == [kind |-> "None"]
PyStr(s) == [kind |-> "str", names |-> <<s>>]
PyList(seq) == [kind |-> "list", names |-> seq]
PyTuple(seq) == [kind |-> "tuple", names |-> seq]
PyFn(name) == [kind |-> "function", names |-> <<name>>]
PyClass(name) == [kind |-> "class", names |-> <<name>>]
PyBool(b) == [kind |-> "bool", val |-> b]
PyInt(n) == [kind |-> "int", val |-> n]
Raise(exc) == [kind |-> "raise", exc |-> exc]
\* an exception carrying a message, str(e)
RaiseMsg(exc, msg) == [kind |-> "raise", exc |-> exc, msg |-> msg]
\* isinstance(v, dict): dicts are the values without a kind
IsDict(v) == "kind" \notin DOMAIN v

EmptyDict == <<>>
Range(f) == {f[k] : k \in DOMAIN f}
\* dict.get(k, default)
Get(d, k, default) == IF k \in DOMAIN d THEN d[k] ELSE default
\* all dicts whose keys are a subset of keys and whose values are in vals
DictsOver(keys, vals) == UNION {[s -> vals] : s \in SUBSET keys}
\* all sequences over S of length lo..hi
SeqsOver(S, lo, hi) == UNION {[1..n -> S] : n \in lo..hi}

\* truth value of a python object: None, "", empty lists, tuples and dicts,
\* False and 0 are false, other objects are true
Truthy(v) ==
    IF IsDict(v) THEN DOMAIN v # {} ELSE
    /\ v.kind # "None"
    /\ ~(v.kind = "str" /\ v.names = <<"">>)
    /\ ~(v.kind \in {"list", "tuple"} /\ v.names = <<>>)
    /\ ~(v.kind = "bool" /\ ~v.val)
    /\ ~(v.kind = "int" /\ v.val = 0)

\* sep.join(strs): strs is a sequence of strings, each a sequence of tokens
RECURSIVE Join(_, _)
Join(strs, sep) ==
    IF Len(strs) = 0 THEN <<>>
    ELSE IF Len(strs) = 1 THEN strs[1]
    ELSE strs[1] \o sep \o Join(Tail(strs), sep)

\* the strings of a sequence of names, one token each
Strs(names) == [i \in 1..Len(names) |-> <<names[i]>>]

\* the keys of a set in iteration order
RECURSIVE KeysInOrder(_)
KeysInOrder(keys) ==
    IF keys = {} THEN <<>>
    ELSE LET k == CHOOSE x \in keys : TRUE
         IN  <<k>> \o KeysInOrder(keys \ {k})

Digit == <<"0", "1", "2", "3", "4", "5", "6", "7", "8", "9">>
\* str(n) of a natural number
RECURSIVE IntStr(_)
IntStr(n) ==
    IF n < 10 THEN Digit[n + 1]
    ELSE IntStr(n \div 10) \o Digit[(n % 10) + 1]

\* repr(v) of a value that is not a dict
AtomRepr(v) ==
    CASE v.kind = "None" -> "None"
      [] v.kind = "str" -> "'" \o v.names[1] \o "'"
      [] v.kind = "int" -> IntStr(v.val)
      [] v.kind = "bool" -> IF v.val THEN "True" ELSE "False"
\* the items of repr(d) for the keys in order
RECURSIVE ItemsRepr(_, _)
ItemsRepr(d, keys) ==
    IF Len(keys) = 0 THEN ""
    ELSE "'" \o keys[1] \o "': " \o AtomRepr(d[keys[1]])
         \o (IF Len(keys) = 1 THEN "" ELSE ", " \o ItemsRepr(d, Tail(keys)))
\* str(v): a string is itself, a dict is printed with its items
ToStr(v) ==
    IF IsDict(v) THEN "{" \o ItemsRepr(v, KeysInOrder(DOMAIN v)) \o "}"
    ELSE IF v.kind = "str" THEN v.names[1]
    ELSE AtomRepr(v)

ValidationResult(is_valid, msg) ==
    [kind |-> "ValidationResult", is_valid |-> is_valid, msg |-> msg]

\* ------------------------------------------------------------ constants
\* consts.Service names used by the rules and the Glance scenarios
NOVA_NET == "nova-network"
GLANCE == "glance"

\* ------------------------------------------------------- collaborators
\* a client-handle-set: services() is a dict service type -> service name,
\* nova().services.list() a list of records with binary and status,
\* nova().flavors the flavors [id, name] nova knows (nova_fault: the nova
\* client answers every flavor request with Forbidden),
\* cinder().volume_types.list() a list of names, versions the result of
\* <component>.choose_version() for each component, and keystone_attrs the
\* attributes of keystone()
Clients(services, nova_services) ==
    [kind |-> "Clients", services |-> services, nova_services |-> nova_services,
     flavors |-> <<>>, nova_fault |-> FALSE, volume_types |-> <<>>,
     versions |-> EmptyDict, keystone_attrs |-> {}]
NovaClients(flavors, nova_fault) ==
    [Clients(EmptyDict, <<>>) EXCEPT !.flavors = flavors,
                                     !.nova_fault = nova_fault]
CinderClients(volume_types) ==
    [Clients(EmptyDict, <<>>) EXCEPT !.volume_types = volume_types]
VersionClients(versions, keystone_attrs) ==
    [Clients(EmptyDict, <<>>) EXCEPT !.versions = versions,
                                     !.keystone_attrs = keystone_attrs]

\* a pair (first, second) returned by a function
PyPair(first, second) == [kind |-> "pair", first |-> first, second |-> second]

\* types.obj_from_name(resource_config, resources, typename): the resource
\* whose name is resource_config["name"] (or matches resource_config["regex"];
\* the patterns are plain names none of which occurs inside another),
\* InvalidScenarioArgument when there is no name or regex, no match, or more
\* than one match
obj_from_name(resource_config, resources) ==
    IF "name" \notin DOMAIN resource_config
       /\ "regex" \notin DOMAIN resource_config
    THEN Raise("InvalidScenarioArgument")
    ELSE LET pattern == IF "name" \in DOMAIN resource_config
                        THEN resource_config["name"]
                        ELSE resource_config["regex"]
             matching == SelectSeq(resources,
                                   LAMBDA res : PyStr(res.name) = pattern)
         IN  IF Len(matching) = 1 THEN matching[1]
             ELSE Raise("InvalidScenarioArgument")

\* openstack_types.Flavor.transform(clients, resource_config): the id of the
\* config, or the id of the flavor of nova().flavors.list() with its name
Flavor_transform(clients, resource_config) ==
    LET resource_id == Get(resource_config, "id", NoneVal)
    IN  IF Truthy(resource_id) THEN resource_id
        ELSE IF clients.nova_fault THEN Raise("Forbidden")
        ELSE LET res == obj_from_name(resource_config, clients.flavors)
             IN  IF "kind" \in DOMAIN res THEN res ELSE PyStr(res.id)

\* clients.nova().flavors.get(flavor=flavor_id): NotFound for an unknown id
flavors_get(clients, flavor_id) ==
    IF clients.nova_fault THEN Raise("Forbidden")
    ELSE LET found == SelectSeq(clients.flavors,
                                LAMBDA res : PyStr(res.id) = flavor_id)
         IN  IF Len(found) = 0 THEN Raise("NotFound") ELSE found[1]

\* flavors_ctx.FlavorConfig(**f) for a flavor declared with name and ram
FlavorConfig(f) == [name |-> f["name"].names[1], ram |-> f["ram"]]
\* a credential: clients() returns its client-handle-set
Credential(clients) == [kind |-> "Credential", clients |-> clients]
\* deployment.get_credentials_for is credentials.get
get_credentials_for(deployment, platform) == Get(deployment, platform, NoneVal)

\* the file system: the expanded paths os.access(path, os.R_OK) accepts
VARIABLE readable

\* os.path.expanduser(path) for the home directory /home/rally
expanduser(path) == IF path = "~/a" THEN "/home/rally/a" ELSE path

\* ------------------------------------------------------ built-in rules
\* Each rule is fn(config, clients, deployment, *args, **kwargs); it returns
\* NoneVal when the python function falls off its end, a ValidationResult
\* when it returns one, and Raise(exc) when an exception leaves it.

file_access_ok(filename, param_name, required) ==
    IF ~Truthy(filename)
    THEN ValidationResult(~required, <<"Parameter ", param_name, " required">>)
    ELSE IF expanduser(filename.names[1]) \notin readable
    THEN ValidationResult(FALSE,
             <<"Could not open ", filename.names[1], " with mode ", "R_OK",
               " for parameter ", param_name>>)
    ELSE ValidationResult(TRUE, <<>>)

AllowedCommandKeys ==
    {"script_file", "script_inline", "interpreter", "remote_path",
     "local_path", "command_args"}

\* mutant of check_command_dict: the keys of the dictionary are not checked
check_command_dict_NoKeyCheck(command) ==
    IF ~IsDict(command)
    THEN RaiseMsg("ValueError", <<"Command must be a dictionary">>)
    ELSE LET interp == Get(command, "interpreter", NoneVal)
             script_file == Get(command, "script_file", NoneVal)
             interpreter == IF interp.kind \in {"tuple", "list"}
                            THEN PyStr(interp.names[Len(interp.names)])
                            ELSE interp
         IN  IF Truthy(interp)
             THEN IF Truthy(script_file) /\ "script_inline" \in DOMAIN command
                  THEN RaiseMsg("ValueError",
                           <<"Exactly one of script_inline or script_file with ",
                             "interpreter is expected: ", "%r">>)
                  ELSE IF /\ Truthy(Get(command, "local_path", NoneVal))
                          /\ Get(command, "remote_path", NoneVal) # interpreter
                  THEN RaiseMsg("ValueError",
                           <<"When uploading an interpreter its path should be ",
                             "as well specified as the `remote_path' string: ",
                             "%r">>)
                  ELSE NoneVal
             ELSE IF ~Truthy(Get(command, "remote_path", NoneVal))
             THEN RaiseMsg("ValueError",
                      <<"Supplied dict specifies no command to execute,",
                        " either interpreter or remote_path is required: ",
                        "%r">>)
             ELSE NoneVal

\* check_command_dict(command): NoneVal when it returns, the ValueError when
\* it raises; "%r" stands for the repr of the command
check_command_dict(command) ==
    IF ~IsDict(command)
    THEN RaiseMsg("ValueError", <<"Command must be a dictionary">>)
    ELSE LET interp == Get(command, "interpreter", NoneVal)
             script_file == Get(command, "script_file", NoneVal)
             interpreter == IF interp.kind \in {"tuple", "list"}
                            THEN PyStr(interp.names[Len(interp.names)])
                            ELSE interp
             unexpected_keys == DOMAIN command \ AllowedCommandKeys
             form ==
                 IF Truthy(interp)
                 THEN IF /\ Truthy(script_file)
                         /\ "script_inline" \in DOMAIN command
                      THEN RaiseMsg("ValueError",
                               <<"Exactly one of script_inline or script_file ",
                                 "with interpreter is expected: ", "%r">>)
                      ELSE IF /\ Truthy(Get(command, "local_path", NoneVal))
                              /\ Get(command, "remote_path", NoneVal)
                                     # interpreter
                      THEN RaiseMsg("ValueError",
                               <<"When uploading an interpreter its path ",
                                 "should be as well specified as the ",
                                 "`remote_path' string: ", "%r">>)
                      ELSE NoneVal
                 ELSE IF ~Truthy(Get(command, "remote_path", NoneVal))
                 THEN RaiseMsg("ValueError",
                          <<"Supplied dict specifies no command to execute,",
                            " either interpreter or remote_path is required: ",
                            "%r">>)
                 ELSE NoneVal
         IN  IF form # NoneVal THEN form
             ELSE IF unexpected_keys # {}
             THEN RaiseMsg("ValueError",
                      <<"Unexpected command parameters: ">>
                      \o Join(Strs(KeysInOrder(unexpected_keys)), <<", ">>))
             ELSE NoneVal

\* mutant of valid_command: the ValueError of check_command_dict is not
\* caught
valid_command_NoCatch(config, clients, deployment, args, kwargs) ==
    LET param_name == args[1].names[1]
        required == IF Len(args) >= 2 THEN args[2]
                    ELSE Get(kwargs, "required", PyBool(TRUE))
        command == Get(Get(config, "args", EmptyDict), param_name, NoneVal)
        checked == check_command_dict(command)
    IN  IF ~IsDict(command) /\ command.kind = "None" /\ ~Truthy(required)
        THEN ValidationResult(TRUE, <<>>)
        ELSE IF checked.kind = "raise"
        THEN checked
        ELSE IF Truthy(Get(command, "script_file", NoneVal))
        THEN file_access_ok(command["script_file"],
                            param_name \o "." \o "script_file", TRUE)
        ELSE IF Truthy(Get(command, "local_path", NoneVal))
        THEN file_access_ok(command["local_path"],
                            param_name \o "." \o "local_path", TRUE)
        ELSE ValidationResult(TRUE, <<>>)

\* valid_command(config, clients, deployment, param_name, required=True)
valid_command(config, clients, deployment, args, kwargs) ==
    LET param_name == args[1].names[1]
        required == IF Len(args) >= 2 THEN args[2]
                    ELSE Get(kwargs, "required", PyBool(TRUE))
        command == Get(Get(config, "args", EmptyDict), param_name, NoneVal)
        checked == check_command_dict(command)
    IN  IF ~IsDict(command) /\ command.kind = "None" /\ ~Truthy(required)
        THEN ValidationResult(TRUE, <<>>)
        ELSE IF checked.kind = "raise"
        THEN \* except ValueError as e: ValidationResult(False, str(e))
             ValidationResult(FALSE, checked.msg)
        ELSE IF Truthy(Get(command, "script_file", NoneVal))
        THEN file_access_ok(command["script_file"],
                            param_name \o "." \o "script_file", TRUE)
        ELSE IF Truthy(Get(command, "local_path", NoneVal))
        THEN file_access_ok(command["local_path"],
                            param_name \o "." \o "local_path", TRUE)
        ELSE ValidationResult(TRUE, <<>>)

\* _get_flavor_from_context(config, flavor_value)
get_flavor_from_context(config, flavor_value) ==
    IF "flavors" \notin DOMAIN Get(config, "context", EmptyDict)
    THEN RaiseMsg("InvalidScenarioArgument", <<"No flavors context">>)
    ELSE LET declared == config["context"]["flavors"]
             flavors == [i \in 1..Len(declared) |-> FlavorConfig(declared[i])]
             resource == obj_from_name(flavor_value, flavors)
         IN  IF "kind" \in DOMAIN resource THEN resource
             ELSE PyPair(ValidationResult(TRUE, <<>>),
                         [name |-> resource.name, ram |-> resource.ram,
                          id |-> "<context flavor: " \o resource.name \o ">"])

\* mutant of get_validated_flavor: an InvalidScenarioArgument of the context
\* fallback is not caught
get_validated_flavor_NoFallbackCatch(config, clients, param_name) ==
    LET flavor_value == Get(Get(config, "args", EmptyDict), param_name, NoneVal)
        flavor_id == Flavor_transform(clients, flavor_value)
        flavor == IF flavor_id.kind = "raise" THEN flavor_id
                  ELSE flavors_get(clients, flavor_id)
    IN  IF ~Truthy(flavor_value)
        THEN PyPair(ValidationResult(FALSE,
                        <<"Parameter ", param_name, " is not specified.">>),
                    NoneVal)
        ELSE IF "kind" \notin DOMAIN flavor
        THEN PyPair(ValidationResult(TRUE, <<>>), flavor)
        ELSE IF flavor.exc \in {"NotFound", "InvalidScenarioArgument"}
        THEN get_flavor_from_context(config, flavor_value)
        ELSE flavor

\* _get_validated_flavor(config, clients, param_name): the pair (result,
\* flavor), or the exception that leaves the function
get_validated_flavor(config, clients, param_name) ==
    LET flavor_value == Get(Get(config, "args", EmptyDict), param_name, NoneVal)
        flavor_id == Flavor_transform(clients, flavor_value)
        flavor == IF flavor_id.kind = "raise" THEN flavor_id
                  ELSE flavors_get(clients, flavor_id)
        fallback == get_flavor_from_context(config, flavor_value)
    IN  IF ~Truthy(flavor_value)
        THEN PyPair(ValidationResult(FALSE,
                        <<"Parameter ", param_name, " is not specified.">>),
                    NoneVal)
        ELSE IF "kind" \notin DOMAIN flavor
        THEN PyPair(ValidationResult(TRUE, <<>>), flavor)
        ELSE IF flavor.exc \in {"NotFound", "InvalidScenarioArgument"}
        THEN IF fallback.kind = "raise"
                /\ fallback.exc = "InvalidScenarioArgument"
             THEN PyPair(ValidationResult(FALSE,
                             <<"Flavor '", ToStr(flavor_value),
                               "' not found">>),
                         NoneVal)
             ELSE fallback
        ELSE flavor

\* flavor_exists(config, clients, deployment, param_name)
flavor_exists(config, clients, deployment, args, kwargs) ==
    LET validated == get_validated_flavor(config, clients, args[1].names[1])
    IN  IF validated.kind = "raise" THEN validated ELSE validated.first

\* mutant of volume_type_exists: the argument has to be among the listed
\* volume types
volume_type_exists_ByName(config, clients, deployment, args, kwargs) ==
    LET param_name == args[1].names[1]
        val == Get(Get(config, "args", EmptyDict), param_name, NoneVal)
        volume_types_list == clients.volume_types
    IN  IF Truthy(val)
           /\ \A i \in 1..Len(volume_types_list) :
                  PyStr(volume_types_list[i]) # val
        THEN ValidationResult(FALSE,
                 <<"Must have at least one volume type created ",
                   "when specifying use of volume types.">>)
        ELSE NoneVal

\* volume_type_exists(config, clients, deployment, param_name)
volume_type_exists(config, clients, deployment, args, kwargs) ==
    LET param_name == args[1].names[1]
        val == Get(Get(config, "args", EmptyDict), param_name, NoneVal)
        volume_types_list == clients.volume_types
    IN  IF Truthy(val) /\ Len(volume_types_list) = 0
        THEN ValidationResult(FALSE,
                 <<"Must have at least one volume type created ",
                   "when specifying use of volume types.">>)
        ELSE NoneVal

\* the message of required_api_versions for the version found
api_versions_msg(component, versions, found_version) ==
    <<"Task was designed to be used with ", component, " V">>
    \o Join(Strs(versions), <<", ">>)
    \o <<", but V", found_version, " is selected.">>

\* mutant of required_api_versions: the version in use is compared with the
\* accepted versions as they are given, not in string form
required_api_versions_NoStr(config, clients, deployment, args, kwargs) ==
    LET component == IF Len(args) >= 1 THEN args[1].names[1]
                     ELSE kwargs["component"].names[1]
        given_versions == IF Len(args) >= 2 THEN args[2].names
                          ELSE kwargs["versions"].names
        versions == [i \in 1..Len(given_versions) |-> ToStr(given_versions[i])]
        used_version ==
            Get(Get(Get(Get(config, "context", EmptyDict),
                        "api_versions", EmptyDict),
                    component, EmptyDict),
                "version", clients.versions[component])
    IN  IF component = "keystone"
        THEN IF "2.0" \notin Range(versions)
                /\ "tenants" \in clients.keystone_attrs
             THEN ValidationResult(FALSE,
                      api_versions_msg(component, versions, "2.0"))
             ELSE IF "3" \notin Range(versions)
                     /\ "projects" \in clients.keystone_attrs
             THEN ValidationResult(FALSE,
                      api_versions_msg(component, versions, "3"))
             ELSE NoneVal
        ELSE IF ~Truthy(used_version)
        THEN ValidationResult(FALSE, <<"Unable to determine the API version.">>)
        ELSE IF used_version \notin Range(given_versions)
        THEN ValidationResult(FALSE,
                 api_versions_msg(component, versions, ToStr(used_version)))
        ELSE NoneVal

\* required_api_versions(config, clients, deployment, component, versions)
required_api_versions(config, clients, deployment, args, kwargs) ==
    LET component == IF Len(args) >= 1 THEN args[1].names[1]
                     ELSE kwargs["component"].names[1]
        given_versions == IF Len(args) >= 2 THEN args[2].names
                          ELSE kwargs["versions"].names
        versions == [i \in 1..Len(given_versions) |-> ToStr(given_versions[i])]
        used_version ==
            Get(Get(Get(Get(config, "context", EmptyDict),
                        "api_versions", EmptyDict),
                    component, EmptyDict),
                "version", clients.versions[component])
    IN  IF component = "keystone"
        THEN IF "2.0" \notin Range(versions)
                /\ "tenants" \in clients.keystone_attrs
             THEN ValidationResult(FALSE,
                      api_versions_msg(component, versions, "2.0"))
             ELSE IF "3" \notin Range(versions)
                     /\ "projects" \in clients.keystone_attrs
             THEN ValidationResult(FALSE,
                      api_versions_msg(component, versions, "3"))
             ELSE NoneVal
        ELSE IF ~Truthy(used_version)
        THEN ValidationResult(FALSE, <<"Unable to determine the API version.">>)
        ELSE IF ToStr(used_version) \notin Range(versions)
        THEN ValidationResult(FALSE,
                 api_versions_msg(component, versions, ToStr(used_version)))
        ELSE NoneVal

\* mutant of restricted_parameters: the search stops at the first
\* parameter found
restricted_parameters_FirstOnly(config, clients, deployment, args, kwargs) ==
    LET raw == args[1]
        subdict == IF Len(args) >= 2 THEN args[2]
                   ELSE Get(kwargs, "subdict", NoneVal)
        param_names == IF raw.kind \in {"list", "tuple"} THEN raw.names
                       ELSE <<raw.names[1]>>
        a_args == Get(config, "args", EmptyDict)
        target == IF Truthy(subdict)
                  THEN Get(a_args, subdict.names[1], EmptyDict)
                  ELSE Get(config, "args", EmptyDict)
        found == SelectSeq(param_names, LAMBDA p : p \in DOMAIN target)
        restricted_params == IF Len(found) = 0 THEN <<>> ELSE <<found[1]>>
    IN  IF Len(restricted_params) > 0
        THEN ValidationResult(FALSE,
                 <<"You can't specify parameters '">>
                 \o Join(Strs(restricted_params), <<", ">>)
                 \o <<"' in '">>
                 \o <<IF Truthy(subdict) THEN subdict.names[1] ELSE "args">>
                 \o <<"'">>)
        ELSE NoneVal

restricted_parameters(config, clients, deployment, args, kwargs) ==
    LET raw == args[1]
        subdict == IF Len(args) >= 2 THEN args[2]
                   ELSE Get(kwargs, "subdict", NoneVal)
        param_names == IF raw.kind \in {"list", "tuple"} THEN raw.names
                       ELSE <<raw.names[1]>>
        a_args == Get(config, "args", EmptyDict)
        target == IF Truthy(subdict)
                  THEN Get(a_args, subdict.names[1], EmptyDict)
                  ELSE Get(config, "args", EmptyDict)
        restricted_params ==
            SelectSeq(param_names, LAMBDA p : p \in DOMAIN target)
    IN  IF Len(restricted_params) > 0
        THEN ValidationResult(FALSE,
                 <<"You can't specify parameters '">>
                 \o Join(Strs(restricted_params), <<", ">>)
                 \o <<"' in '">>
                 \o <<IF Truthy(subdict) THEN subdict.names[1] ELSE "args">>
                 \o <<"'">>)
        ELSE NoneVal

\* the services the NOVA_NET branch adds to the available ones
nova_net_available(admin_clients) ==
    IF \E i \in 1..Len(admin_clients.nova_services) :
           /\ admin_clients.nova_services[i].binary = NOVA_NET
           /\ admin_clients.nova_services[i].status = "enabled"
    THEN {NOVA_NET} ELSE {}

\* mutant of required_services_loop: any api_versions entry of the service
\* bypasses the check
RECURSIVE required_services_loop_AnyEntry(_, _, _)
required_services_loop_AnyEntry(config, available_services, services) ==
    IF Len(services) = 0 THEN NoneVal
    ELSE LET service == Head(services)
             api_versions == Get(Get(config, "context", EmptyDict),
                                 "api_versions", EmptyDict)
         IN  IF /\ service \notin available_services
                /\ service \notin DOMAIN api_versions
             THEN ValidationResult(FALSE,
                      <<"'", service, "' service is not available. Hint: If '",
                        service, "' service has non-default service_type, ",
                        "try to setup it via 'api_versions' context.">>)
             ELSE required_services_loop_AnyEntry(config, available_services,
                                                  Tail(services))

\* the loop over the required services, returning at the first missing one
RECURSIVE required_services_loop(_, _, _)
required_services_loop(config, available_services, services) ==
    IF Len(services) = 0 THEN NoneVal
    ELSE LET service == Head(services)
             service_config ==
                 Get(Get(Get(config, "context", EmptyDict),
                         "api_versions", EmptyDict), service, EmptyDict)
         IN  IF /\ service \notin available_services
                /\ ~("service_type" \in DOMAIN service_config
                     \/ "service_name" \in DOMAIN service_config)
             THEN ValidationResult(FALSE,
                      <<"'", service, "' service is not available. Hint: If '",
                        service, "' service has non-default service_type, ",
                        "try to setup it via 'api_versions' context.">>)
             ELSE required_services_loop(config, available_services,
                                         Tail(services))

required_services(config, clients, deployment, args, kwargs) ==
    LET services == [i \in 1..Len(args) |-> args[i].names[1]]
        creds == get_credentials_for(deployment, "openstack")
    IN  IF clients.kind = "None" THEN Raise("AttributeError")
        ELSE IF NOVA_NET \in Range(services)
        THEN IF "openstack" \notin DOMAIN deployment THEN Raise("TypeError")
             ELSE IF "admin" \notin DOMAIN creds THEN Raise("KeyError")
             ELSE IF creds["admin"].kind = "None" THEN Raise("AttributeError")
             ELSE required_services_loop(config,
                      Range(clients.services)
                      \cup nova_net_available(creds["admin"].clients),
                      services)
        ELSE required_services_loop(config, Range(clients.services), services)

\* mutant of missing_contexts: the first missing name ends the search
RECURSIVE missing_contexts_FirstOnly(_, _)
missing_contexts_FirstOnly(context, context_names) ==
    IF Len(context_names) = 0 THEN <<>>
    ELSE LET name == Head(context_names)
             rest == missing_contexts_FirstOnly(context, Tail(context_names))
         IN  IF name.kind = "tuple"
             THEN IF Range(name.names) \cap DOMAIN context = {}
                  THEN <<(<<"'">> \o Join(Strs(name.names), <<" or ">>)
                          \o <<"'">>)>>
                  ELSE rest
             ELSE IF name.names[1] \notin DOMAIN context
                  THEN <<(<<name.names[1]>>)>>
                  ELSE rest

\* mutant of missing_contexts: each member of a group is quoted on its own
RECURSIVE missing_contexts_QuotesEach(_, _)
missing_contexts_QuotesEach(context, context_names) ==
    IF Len(context_names) = 0 THEN <<>>
    ELSE LET name == Head(context_names)
             rest == missing_contexts_QuotesEach(context, Tail(context_names))
         IN  IF name.kind = "tuple"
             THEN IF Range(name.names) \cap DOMAIN context = {}
                  THEN <<Join([i \in 1..Len(name.names) |->
                                  <<"'", name.names[i], "'">>], <<" or ">>)>>
                       \o rest
                  ELSE rest
             ELSE IF name.names[1] \notin DOMAIN context
                  THEN <<(<<name.names[1]>>)>> \o rest
                  ELSE rest

\* the loop over the context names, collecting the missing ones
RECURSIVE missing_contexts(_, _)
missing_contexts(context, context_names) ==
    IF Len(context_names) = 0 THEN <<>>
    ELSE LET name == Head(context_names)
             rest == missing_contexts(context, Tail(context_names))
         IN  IF name.kind = "tuple"
             THEN IF Range(name.names) \cap DOMAIN context = {}
                  THEN <<(<<"'">> \o Join(Strs(name.names), <<" or ">>)
                          \o <<"'">>)>> \o rest
                  ELSE rest
             ELSE IF name.names[1] \notin DOMAIN context
                  THEN <<(<<name.names[1]>>)>> \o rest
                  ELSE rest

required_contexts(config, clients, deployment, args, kwargs) ==
    LET context == Get(config, "context", EmptyDict)
        missing == missing_contexts(context, args)
    IN  IF Len(missing) > 0
        THEN ValidationResult(FALSE,
                 <<"The following contexts are required but missing from ",
                   "the benchmark configuration file: ">>
                 \o Join(missing, <<", ">>))
        ELSE NoneVal

\* self.fn(config, clients, deployment, *self.args, **self.kwargs)
CallFn(fn, config, clients, deployment, args, kwargs) ==
    CASE fn = "restricted_parameters" ->
             restricted_parameters(config, clients, deployment, args, kwargs)
      [] fn = "required_services" ->
             required_services(config, clients, deployment, args, kwargs)
      [] fn = "required_contexts" ->
             required_contexts(config, clients, deployment, args, kwargs)
      [] fn = "valid_command" ->
             valid_command(config, clients, deployment, args, kwargs)
      [] fn = "flavor_exists" ->
             flavor_exists(config, clients, deployment, args, kwargs)
      [] fn = "volume_type_exists" ->
             volume_type_exists(config, clients, deployment, args, kwargs)
      [] fn = "required_api_versions" ->
             required_api_versions(config, clients, deployment, args, kwargs)

\* ------------------------------------------------------ legacy adapter
\* OldValidator.__init__(fn, *args, **kwargs)
OldValidator(fn, args, kwargs) ==
    [kind |-> "OldValidator", fn |-> fn, args |-> args, kwargs |-> kwargs]

\* raw or ValidationResult(True); an exception is no value and passes
or_valid(raw) ==
    IF raw.kind = "raise" THEN raw
    ELSE IF Truthy(raw) THEN raw
    ELSE ValidationResult(TRUE, <<>>)

\* mutant of run_fn: a function that returns nothing counts as a failure
run_fn_NoneFails(self, config, deployment, clients) ==
    LET raw == CallFn(self.fn, config, clients, deployment,
                      self.args, self.kwargs)
    IN  IF raw.kind = "raise" THEN raw
        ELSE IF Truthy(raw) THEN raw
        ELSE ValidationResult(FALSE, <<>>)

\* OldValidator._run_fn: the function's result, or a valid one when it is
\* false (None); an exception passes through
run_fn(self, config, deployment, clients) ==
    or_valid(CallFn(self.fn, config, clients, deployment,
                    self.args, self.kwargs))

\* what one invocation of the wrapped function looked like: the position of
\* the user (0: no user), the clients passed, what fn returned and what
\* _run_fn made of it
FnEvent(self, config, deployment, user, clients) ==
    [ev |-> "fn", user |-> user, clients |-> clients,
     raw |-> CallFn(self.fn, config, clients, deployment,
                    self.args, self.kwargs),
     result |-> run_fn(self, config, deployment, clients)]

\* one pass of the for loop of validate: event is the invocation of _run_fn
\* for the user (event.result is what it returned), rest the passes for the
\* users after it, which run only when the result is valid
loop_body(event, rest) ==
    IF event.result.kind = "raise" THEN
        [result |-> event.result, trace |-> <<event>>]
    ELSE IF ~event.result.is_valid THEN
        [result |-> event.result, trace |-> <<event>>]
    ELSE [result |-> rest.result, trace |-> <<event>> \o rest.trace]

\* mutant of validate_loop: every user is evaluated, the first failure is
\* returned at the end
RECURSIVE validate_loop_NoBreak(_, _, _, _, _)
validate_loop_NoBreak(self, config, deployment, users, i) ==
    IF i > Len(users)
    THEN [result |-> ValidationResult(TRUE, <<>>), trace |-> <<>>]
    ELSE LET result == run_fn(self, config, deployment, users[i])
             event == FnEvent(self, config, deployment, i, users[i])
             rest == validate_loop_NoBreak(self, config, deployment, users,
                                           i + 1)
         IN  IF result.kind = "raise" THEN
                 [result |-> result, trace |-> <<event>>]
             ELSE IF ~result.is_valid THEN
                 [result |-> result, trace |-> <<event>> \o rest.trace]
             ELSE [result |-> rest.result, trace |-> <<event>> \o rest.trace]

\* the for loop of validate over the resolved client sets, from position i
RECURSIVE validate_loop(_, _, _, _, _)
validate_loop(self, config, deployment, users, i) ==
    IF i > Len(users)
    THEN [result |-> ValidationResult(TRUE, <<>>), trace |-> <<>>]
    ELSE loop_body(FnEvent(self, config, deployment, i, users[i]),
                   validate_loop(self, config, deployment, users, i + 1))

\* the if branch of validate: the clients resolved, then the loop
with_users(resolutions, loop, config) ==
    [result |-> loop.result,
     trace |-> resolutions \o loop.trace,
     config |-> config]
\* the else branch of validate: self._run_fn(config, deployment), whose
\* invocation is event and whose result is event.result
without_users(event, config) ==
    [result |-> event.result, trace |-> <<event>>, config |-> config]

\* mutant of validate: the client set of a user is resolved right before the
\* function is invoked for that user
validate_LazyClients(self, credentials, config) ==
    LET creds == Get(credentials, "openstack", EmptyDict)
        users == Get(creds, "users", <<>>)
        deployment == credentials
        resolved == [i \in 1..Len(users) |-> users[i].credential.clients]
        loop == validate_loop(self, config, deployment, resolved, 1)
        lazy == [k \in 1..(2 * Len(loop.trace)) |->
                    IF k % 2 = 1 THEN [ev |-> "clients", user |-> (k + 1) \div 2]
                    ELSE loop.trace[k \div 2]]
    IN  IF Len(users) > 0
        THEN [result |-> loop.result, trace |-> lazy, config |-> config]
        ELSE [result |-> run_fn(self, config, deployment, NoneVal),
              trace |-> <<FnEvent(self, config, deployment, 0, NoneVal)>>,
              config |-> config]

\* mutant of validate: without users there is nothing to check
validate_NoUsersPasses(self, credentials, config) ==
    LET creds == Get(credentials, "openstack", EmptyDict)
        users == Get(creds, "users", <<>>)
        deployment == credentials
        resolved == [i \in 1..Len(users) |-> users[i].credential.clients]
        resolutions == [i \in 1..Len(users) |-> [ev |-> "clients", user |-> i]]
        loop == validate_loop(self, config, deployment, resolved, 1)
    IN  [result |-> loop.result,
         trace |-> resolutions \o loop.trace,
         config |-> config]

\* mutant of validate: the args mapping is taken out of the document (pop
\* in place of get)
validate_PopsArgs(self, credentials, config) ==
    LET creds == Get(credentials, "openstack", EmptyDict)
        users == Get(creds, "users", <<>>)
        deployment == credentials
        resolved == [i \in 1..Len(users) |-> users[i].credential.clients]
        resolutions == [i \in 1..Len(users) |-> [ev |-> "clients", user |-> i]]
        loop == validate_loop(self, config, deployment, resolved, 1)
        after == [k \in DOMAIN config \ {"args"} |-> config[k]]
    IN  IF Len(users) > 0
        THEN [result |-> loop.result,
              trace |-> resolutions \o loop.trace,
              config |-> after]
        ELSE [result |-> run_fn(self, config, deployment, NoneVal),
              trace |-> <<FnEvent(self, config, deployment, 0, NoneVal)>>,
              config |-> after]

\* mutant of validate: the args mapping is created in the document when it
\* is missing (setdefault in place of get)
validate_SetsDefaultArgs(self, credentials, config) ==
    LET creds == Get(credentials, "openstack", EmptyDict)
        users == Get(creds, "users", <<>>)
        deployment == credentials
        resolved == [i \in 1..Len(users) |-> users[i].credential.clients]
        resolutions == [i \in 1..Len(users) |-> [ev |-> "clients", user |-> i]]
        loop == validate_loop(self, config, deployment, resolved, 1)
        after == IF "args" \in DOMAIN config THEN config
                 ELSE config @@ ("args" :> EmptyDict)
    IN  IF Len(users) > 0
        THEN [result |-> loop.result,
              trace |-> resolutions \o loop.trace,
              config |-> after]
        ELSE [result |-> run_fn(self, config, deployment, NoneVal),
              trace |-> <<FnEvent(self, config, deployment, 0, NoneVal)>>,
              config |-> after]

\* OldValidator.validate(credentials, config, plugin_cls, plugin_cfg): what
\* it returns (or raises), the calls it made in order, and the config
\* document as the call leaves it
validate(self, credentials, config) ==
    LET creds == Get(credentials, "openstack", EmptyDict)
        users == Get(creds, "users", <<>>)
        deployment == credentials
        resolved == [i \in 1..Len(users) |-> users[i].credential.clients]
        resolutions == [i \in 1..Len(users) |-> [ev |-> "clients", user |-> i]]
    IN  IF Len(users) > 0
        THEN with_users(resolutions,
                        validate_loop(self, config, deployment, resolved, 1),
                        config)
        ELSE without_users(FnEvent(self, config, deployment, 0, NoneVal),
                           config)

\* ---------------------------------------------------------- decorators
\* mutant of meta_append: the entry is inserted at the front of the list
meta_append_Prepends(m, entry) ==
    LET m1 == IF "validators" \in DOMAIN m THEN m
              ELSE m @@ ("validators" :> <<>>)
    IN  [m1 EXCEPT !["validators"] = <<entry>> \o m1["validators"]]

\* scenario._meta_setdefault("validators", []) then
\* scenario._meta_get("validators").append(entry)
meta_append(m, entry) ==
    LET m1 == IF "validators" \in DOMAIN m THEN m
              ELSE m @@ ("validators" :> <<>>)
    IN  [m1 EXCEPT !["validators"] = Append(m1["validators"], entry)]

\* mutant of old_validator_entry: the function is left out of the
\* positional arguments
old_validator_entry_NoFn(fn, args, kwargs) ==
    [name |-> "old_validator", args |-> args, kwargs |-> kwargs]

\* the entry a decorator built by validator(fn)(*args, **kwargs) appends
old_validator_entry(fn, args, kwargs) ==
    [name |-> "old_validator", args |-> <<PyFn(fn)>> \o args, kwargs |-> kwargs]

\* the entry a decorator built by deprecated_validator(name, ...) appends
deprecated_entry(name, args, kwargs) ==
    [name |-> name, args |-> args, kwargs |-> kwargs]

\* ---------------------------------------------------------------- state
VARIABLES
    meta,           \* scenario class -> its _meta dict
    self,           \* the OldValidator instance, NoneVal before __init__
    credentials,    \* the credentials dict of the deployment
    config,         \* the configuration document (args, context)
    applied,        \* scenario class -> the decorators applied to it, in order
    given,          \* the scenario class the last decorator was applied to
    last,           \* the operation that ran last
    ret,            \* what it returned (or raised)
    trace,          \* the calls it made to collaborators and to fn, in order
    prev            \* what the validate before the last one returned and called

vars ==
    <<meta, self, credentials, config, readable, applied, given, last, ret,
      trace, prev>>

Scenarios == {"CreateAndListImage", "ListImages"}

validators(scenario) == Get(meta[scenario], "validators", <<>>)

TotalAttached == Len(validators("CreateAndListImage")) + Len(validators("ListImages"))

\* the decorations of the Glance scenarios
LegacyDecorations ==
    { [fn |-> "restricted_parameters",
       args |-> <<PyList(<<"image_name", "name">>)>>, kwargs |-> EmptyDict],
      [fn |-> "required_services",
       args |-> <<PyStr(GLANCE)>>, kwargs |-> EmptyDict] }

DeprecatedDecorations ==
    { [name |-> "image_exists", args |-> <<>>,
       kwargs |-> ("param_name" :> PyStr("image"))] }

\* ---------------------------------------------------------------- inputs
ConfigsOf(argsSet, contextSet) ==
    {EmptyDict}
    \cup {("args" :> a) : a \in argsSet}
    \cup {("context" :> c) : c \in contextSet}
    \cup {("args" :> a) @@ ("context" :> c) : a \in argsSet, c \in contextSet}

UserClients ==
    {Clients(EmptyDict, <<>>), Clients(("image" :> GLANCE), <<>>)}

UsersOf(clientsSet, lo, hi) ==
    SeqsOver({[credential |-> Credential(c)] : c \in clientsSet}, lo, hi)

AdminCredential == Credential(Clients(EmptyDict, <<>>))

CredentialsOf(usersSet) ==
    {EmptyDict, ("openstack" :> ("admin" :> AdminCredential))}
    \cup {("openstack" :> [admin |-> AdminCredential, users |-> u]) :
             u \in usersSet}

\* the state once the scenario classes are defined and not yet decorated
Loaded ==
    /\ meta = [s \in Scenarios |-> EmptyDict]
    /\ applied = [s \in Scenarios |-> <<>>]
    /\ given = NoneVal
    /\ last = "load"
    /\ ret = NoneVal
    /\ trace = <<>>
    /\ prev = NoneVal

Init ==
    /\ Loaded
    /\ self = NoneVal
    /\ readable = {}
    /\ credentials \in CredentialsOf(UsersOf(UserClients, 0, MaxUsers))
    /\ config \in ConfigsOf({EmptyDict, ("name" :> EmptyDict)},
                            {("api_versions" :>
                                 (GLANCE :> ("service_type" :> 1)))})

\* ---------------------------------------------------------------- actions
\* validator(fn)(*args, **kwargs)(scenario)
wrap_scenario ==
    \E scenario \in Scenarios, d \in LegacyDecorations :
        /\ TotalAttached < MaxAttach
        /\ meta' = [meta EXCEPT ![scenario] =
                       meta_append(@, old_validator_entry(d.fn, d.args, d.kwargs))]
        /\ applied' = [applied EXCEPT ![scenario] = Append(@, d)]
        /\ given' = PyClass(scenario)
        /\ ret' = PyClass(scenario)
        /\ last' = "wrap_scenario"
        /\ trace' = <<>>
        /\ UNCHANGED <<self, credentials, config, readable, prev>>

\* deprecated_validator(name, ...)(*args, **kwargs)(plugin)
wrapper ==
    \E plugin \in Scenarios, d \in DeprecatedDecorations :
        /\ TotalAttached < MaxAttach
        /\ meta' = [meta EXCEPT ![plugin] =
                       meta_append(@, deprecated_entry(d.name, d.args, d.kwargs))]
        /\ applied' = [applied EXCEPT ![plugin] = Append(@, d)]
        /\ given' = PyClass(plugin)
        /\ ret' = PyClass(plugin)
        /\ last' = "wrapper"
        /\ trace' = <<>>
        /\ UNCHANGED <<self, credentials, config, readable, prev>>

\* OldValidator(*entry.args, **entry.kwargs) for an attached old_validator
OldValidator_init ==
    \E scenario \in Scenarios :
        \E i \in 1..Len(validators(scenario)) :
            LET entry == validators(scenario)[i]
            IN  /\ entry.name = "old_validator"
                /\ self' = OldValidator(entry.args[1].names[1],
                                        Tail(entry.args), entry.kwargs)
                /\ ret' = NoneVal
                /\ last' = "__init__"
                /\ trace' = <<>>
                /\ UNCHANGED <<meta, applied, given, credentials, config,
                               readable, prev>>

\* self.validate(credentials, config, plugin_cls, plugin_cfg)
OldValidator_validate ==
    /\ self.kind = "OldValidator"
    /\ LET v == validate(self, credentials, config)
       IN  /\ ret' = v.result
           /\ trace' = v.trace
           /\ config' = v.config
    /\ last' = "validate"
    /\ UNCHANGED <<meta, applied, given, self, credentials, readable, prev>>

Next ==
    \/ wrap_scenario
    \/ wrapper
    \/ OldValidator_init
    \/ OldValidator_validate

Spec == Init /\ [][Next]_vars

\* ------------------------------------------------- the rules on their own
\* One rule function bound to its arguments, applied through _run_fn to a
\* configuration and the client set of the single user.

ParamNames == {"name", "image_name"}
ServiceNames == {GLANCE, NOVA_NET}
ContextNames == {"net", "a", "b"}

OneUser(clients, admin) ==
    ("openstack" :> [admin |-> admin,
                     users |-> <<[credential |-> Credential(clients)]>>])

InitRestricted ==
    /\ readable = {}
    /\ config \in ConfigsOf(DictsOver(ParamNames \cup {"kwargs"},
                                      DictsOver(ParamNames, {1})), {})
    /\ credentials = OneUser(Clients(EmptyDict, <<>>), AdminCredential)
    /\ \E p \in {PyStr(n) : n \in ParamNames}
               \cup {PyList(l) : l \in SeqsOver(ParamNames, 0, MaxArgs)}
               \cup {PyTuple(<<"name">>)} :
           \/ self = OldValidator("restricted_parameters", <<p>>, EmptyDict)
           \/ self = OldValidator("restricted_parameters", <<p>>,
                                  ("subdict" :> PyStr("kwargs")))
           \/ self = OldValidator("restricted_parameters",
                                  <<p, PyStr("kwargs")>>, EmptyDict)

ServiceConfigs ==
    {EmptyDict, ("version" :> 1), ("service_type" :> 1), ("service_name" :> 1),
     [version |-> 1, service_type |-> 1, service_name |-> 1]}

NovaServices ==
    SeqsOver([binary : {NOVA_NET, "nova-compute"},
              status : {"enabled", "disabled"}], 0, 1)

InitServices ==
    /\ readable = {}
    /\ config \in ConfigsOf({}, {EmptyDict} \cup
                     {("api_versions" :> a) :
                          a \in DictsOver(ServiceNames, ServiceConfigs)})
    /\ \E services \in {EmptyDict, ("image" :> GLANCE), ("network" :> NOVA_NET),
                         [image |-> GLANCE, network |-> NOVA_NET]},
          nova \in NovaServices :
           credentials = OneUser(Clients(services, <<>>),
                                 Credential(Clients(EmptyDict, nova)))
    /\ \E args \in SeqsOver({PyStr(n) : n \in ServiceNames}, 0, MaxArgs) :
           self = OldValidator("required_services", args, EmptyDict)

InitContexts ==
    /\ readable = {}
    /\ config \in ConfigsOf({}, DictsOver(ContextNames, {EmptyDict}))
    /\ credentials = OneUser(Clients(EmptyDict, <<>>), AdminCredential)
    /\ \E args \in SeqsOver({PyStr(n) : n \in ContextNames}
                             \cup {PyTuple(<<"a", "b">>), PyTuple(<<"a">>),
                                   PyTuple(<<>>)}, 0, MaxArgs) :
           self = OldValidator("required_contexts", args, EmptyDict)

\* ------------------------------------------------ check_command_dict
\* The command-specifying dictionaries: each key absent, empty or set.
Absent == [kind |-> "absent"]
\* the dictionary of the keys that are given a value
CommandDict(interpreter, script_file, script_inline, remote_path, local_path, command_args, foo) ==
    LET full == [interpreter |-> interpreter, script_file |-> script_file,
                 script_inline |-> script_inline, remote_path |-> remote_path,
                 local_path |-> local_path, command_args |-> command_args,
                 foo |-> foo]
    IN  [k \in {x \in DOMAIN full : full[x] # Absent} |-> full[k]]

CommandInputs ==
    {NoneVal, PyStr("foo")}
    \cup { CommandDict(i, sf, si, rp, lp, ca, foo) :
              i \in {Absent, PyStr(""), PyStr("/bin/sh"),
                     PyList(<<"ENV=x", "/bin/sh">>)},
              sf \in {Absent, PyStr(""), PyStr("a"), PyStr("~/a")},
              si \in {Absent, PyStr(""), PyStr("b")},
              rp \in {Absent, PyStr(""), PyStr("/bin/sh"), PyStr("/x")},
              lp \in {Absent, PyStr(""), PyStr("l")},
              ca \in {Absent, PyStr("a")},
              foo \in {Absent, PyStr("a")} }

\* the command argument of the configuration

\* the commands, the readable files and the bindings valid_command is
\* applied to
RuleCommands ==
    {NoneVal, PyStr("foo")}
    \cup {CommandDict(i, sf, si, rp, lp, Absent, foo) :
             i \in {Absent, PyStr("/bin/sh")},
             sf \in {Absent, PyStr(""), PyStr("a"), PyStr("~/a")},
             si \in {Absent, PyStr("b")},
             rp \in {Absent, PyStr("/bin/sh")},
             lp \in {Absent, PyStr("l")},
             foo \in {Absent, PyStr("a")}}

InitValidCommand ==
    /\ readable \in {{}, {"a"}, {"/home/rally/a"}, {"l"}, {"a", "l"}}
    /\ config \in {EmptyDict} \cup {("args" :> ("command" :> c)) :
                                       c \in RuleCommands}
    /\ credentials = OneUser(Clients(EmptyDict, <<>>), AdminCredential)
    /\ \/ self = OldValidator("valid_command", <<PyStr("command")>>, EmptyDict)
       \/ \E b \in BOOLEAN :
              \/ self = OldValidator("valid_command",
                                     <<PyStr("command"), PyBool(b)>>, EmptyDict)
              \/ self = OldValidator("valid_command", <<PyStr("command")>>,
                                     ("required" :> PyBool(b)))

\* the flavor specifications, the flavors of nova and the flavors contexts
\* flavor_exists is applied to
FlavorSpecs ==
    {NoneVal, EmptyDict, ("id" :> PyStr("1")), ("id" :> PyStr("9")),
     ("name" :> PyStr("small")), ("name" :> PyStr("ctx")),
     ("regex" :> PyStr("ctx"))}
NovaFlavors ==
    {<<>>, <<[id |-> "1", name |-> "small"]>>,
     <<[id |-> "1", name |-> "small"], [id |-> "2", name |-> "small"]>>}
DeclaredFlavor(name) == ("name" :> PyStr(name)) @@ ("ram" :> PyInt(1))
FlavorContexts ==
    {EmptyDict, ("images" :> EmptyDict)}
    \cup {("flavors" :> f) :
             f \in {<<>>, <<DeclaredFlavor("ctx")>>,
                    <<DeclaredFlavor("small")>>,
                    <<DeclaredFlavor("ctx"), DeclaredFlavor("ctx")>>}}

InitFlavor ==
    /\ readable = {}
    /\ config \in {("context" :> c) : c \in FlavorContexts}
                  \cup {("args" :> ("flavor" :> f)) : f \in FlavorSpecs}
                  \cup {("args" :> ("flavor" :> f)) @@ ("context" :> c) :
                           f \in FlavorSpecs, c \in FlavorContexts}
    /\ \E flavors \in NovaFlavors, nova_fault \in BOOLEAN :
           credentials = OneUser(NovaClients(flavors, nova_fault),
                                 AdminCredential)
    /\ self = OldValidator("flavor_exists", <<PyStr("flavor")>>, EmptyDict)

\* the volume type arguments and the volume types of cinder
\* volume_type_exists is applied to
VolumeTypeArgs ==
    {NoneVal, PyStr(""), PyStr("gold"), PyBool(TRUE), PyBool(FALSE)}
VolumeTypeNames == {"gold", "silver"}

InitVolumeType ==
    /\ readable = {}
    /\ config \in {EmptyDict} \cup {("args" :> ("volume_type" :> v)) :
                                       v \in VolumeTypeArgs}
    /\ \E volume_types \in SeqsOver(VolumeTypeNames, 0, 2) :
           credentials = OneUser(CinderClients(volume_types), AdminCredential)
    /\ self = OldValidator("volume_type_exists", <<PyStr("volume_type")>>,
                           EmptyDict)

\* the accepted versions, the declared versions and the versions of the
\* clients required_api_versions is applied to
AcceptedVersions ==
    {PyList(<<>>), PyList(<<PyInt(2)>>), PyList(<<PyStr("2")>>),
     PyList(<<PyInt(0)>>), PyList(<<PyStr("2.0"), PyInt(3)>>),
     PyList(<<PyInt(1), PyStr("2")>>)}
DeclaredVersions ==
    {NoneVal, PyStr(""), PyInt(0), PyInt(2), PyStr("2"), PyStr("3"),
     PyStr("2.0")}
ApiVersionsContexts ==
    {EmptyDict, ("api_versions" :> EmptyDict),
     ("api_versions" :> ("cinder" :> ("version" :> PyInt(2)))),
     ("api_versions" :> ("nova" :> ("service_type" :> PyStr("compute"))))}
    \cup {("api_versions" :> ("nova" :> ("version" :> v))) :
             v \in DeclaredVersions}
ChosenVersions == {NoneVal, PyInt(2), PyStr("2"), PyStr("1")}

InitApiVersions ==
    /\ readable = {}
    /\ config \in {EmptyDict} \cup {("context" :> c) : c \in ApiVersionsContexts}
    /\ \E v \in ChosenVersions, attrs \in {{"tenants"}, {"projects"}} :
           credentials = OneUser(VersionClients(("nova" :> v), attrs),
                                 AdminCredential)
    /\ \E component \in {PyStr("nova"), PyStr("keystone")},
          versions \in AcceptedVersions :
           \/ self = OldValidator("required_api_versions",
                                  <<component, versions>>, EmptyDict)
           \/ self = OldValidator("required_api_versions", <<>>,
                                  [component |-> component,
                                   versions |-> versions])

InitRules ==
    /\ Loaded
    /\ \/ InitRestricted
       \/ InitServices
       \/ InitContexts
       \/ InitValidCommand
       \/ InitFlavor
       \/ InitVolumeType
       \/ InitApiVersions

\* self._run_fn(config, deployment, clients) for the client set of a user
OldValidator_run_fn ==
    /\ self.kind = "OldValidator"
    /\ "openstack" \in DOMAIN credentials
    /\ \E i \in 1..Len(credentials["openstack"].users) :
           LET clients == credentials["openstack"].users[i].credential.clients
           IN  /\ ret' = run_fn(self, config, credentials, clients)
               /\ trace' = <<FnEvent(self, config, credentials, i, clients)>>
    /\ last' = "_run_fn"
    /\ UNCHANGED <<meta, applied, given, self, credentials, config, readable,
                   prev>>

NextRules == OldValidator_run_fn

SpecRules == InitRules /\ [][NextRules]_vars

\* ------------------------------------------------- one validation run twice
\* The same OldValidator is run again on the credentials and the document
\* the run before was given; the file system and the clients do not change.
TwiceValidators ==
    {OldValidator("restricted_parameters",
                  <<PyList(<<"image_name", "name">>)>>, EmptyDict),
     OldValidator("required_services", <<PyStr(GLANCE)>>, EmptyDict),
     OldValidator("valid_command", <<PyStr("command")>>, EmptyDict),
     OldValidator("valid_command", <<PyStr("command"), PyBool(FALSE)>>,
                  EmptyDict)}

InitTwice ==
    /\ Loaded
    /\ readable \in {{}, {"a"}}
    /\ self \in TwiceValidators
    /\ credentials \in CredentialsOf(UsersOf(UserClients, 0, MaxUsers))
    /\ config \in ConfigsOf({EmptyDict, ("name" :> EmptyDict),
                             ("command" :> ("interpreter" :> PyStr("/bin/sh"))
                                           @@ ("script_file" :> PyStr("a")))},
                            {("api_versions" :>
                                 (GLANCE :> ("service_type" :> 1)))})

\* self.validate(credentials, config, plugin_cls, plugin_cfg), with the
\* outcome and the calls of the run before kept in prev
OldValidator_validate_again ==
    /\ self.kind = "OldValidator"
    /\ LET v == validate(self, credentials, config)
       IN  /\ ret' = v.result
           /\ trace' = v.trace
           /\ config' = v.config
    /\ prev' = IF last = "validate" THEN [ret |-> ret, trace |-> trace]
               ELSE NoneVal
    /\ last' = "validate"
    /\ UNCHANGED <<meta, applied, given, self, credentials, readable>>

NextTwice == OldValidator_validate_again

SpecTwice == InitTwice /\ [][NextTwice]_vars

\* ------------------------------------- check_command_dict on its own
\* the command argument of the configuration
CommandArg == Get(Get(config, "args", EmptyDict), "command", NoneVal)

InitCommand ==
    /\ Loaded
    /\ self = NoneVal
    /\ credentials = EmptyDict
    /\ readable = {}
    /\ config \in {("args" :> ("command" :> c)) : c \in CommandInputs}

\* check_command_dict(command)
check_command_dict_call ==
    /\ ret' = check_command_dict(CommandArg)
    /\ trace' = <<>>
    /\ last' = "check_command_dict"
    /\ UNCHANGED <<meta, applied, given, self, credentials, config, readable,
                   prev>>

NextCommand == check_command_dict_call

SpecCommand == InitCommand /\ [][NextCommand]_vars

\* ===================================================================
\* Properties
\* ===================================================================
\* the user entries of the platform, as validate reads them
PlatformUsers == Get(Get(credentials, "openstack", EmptyDict), "users", <<>>)
\* the invocations of the wrapped function by the last operation, in order
FnCalls == SelectSeq(trace, LAMBDA e : e.ev = "fn")
\* the clients() calls of the last operation, in order
ClientsCalls == SelectSeq(trace, LAMBDA e : e.ev = "clients")
IsValid(r) == r.kind = "ValidationResult" /\ r.is_valid
IsInvalid(r) == r.kind = "ValidationResult" /\ ~r.is_valid

\* C1: with a non-empty user list, validate invokes the wrapped function with
\* the client sets of the users in list order, starting at the first user;
\* every invocation but the last returned a valid result; if the last one is
\* not valid it is what validate returns and no later user is evaluated,
\* otherwise every user was evaluated and validate returns success.
ThmC1_FailFast ==
    (last = "validate" /\ Len(PlatformUsers) > 0) =>
        LET n == Len(FnCalls)
        IN  /\ n >= 1
            /\ n <= Len(PlatformUsers)
            /\ \A j \in 1..n :
                   /\ FnCalls[j].user = j
                   /\ FnCalls[j].clients = PlatformUsers[j].credential.clients
            /\ \A j \in 1..(n - 1) : IsValid(FnCalls[j].result)
            /\ IF IsValid(FnCalls[n].result)
               THEN n = Len(PlatformUsers) /\ ret = ValidationResult(TRUE, <<>>)
               ELSE ret = FnCalls[n].result

\* C1 witness: two users, the first fails and the second would pass, and the
\* wrapped function was invoked exactly once.
WitC1_FirstFailsSecondSkipped ==
    /\ last = "validate"
    /\ Len(PlatformUsers) = 2
    /\ Len(FnCalls) = 1
    /\ FnCalls[1].user = 1
    /\ IsInvalid(ret)
    /\ CallFn(self.fn, config, PlatformUsers[2].credential.clients,
              credentials, self.args, self.kwargs) = NoneVal

\* C2: with no user credentials (platform or users key missing, or an empty
\* list) validate resolves no client set, invokes the wrapped function
\* exactly once, with None as clients, and returns what that invocation
\* gave: the function's result when it returned one, success when it
\* returned nothing, its exception when it raised.
ThmC2_NoUsers ==
    (last = "validate" /\ Len(PlatformUsers) = 0) =>
        /\ Len(trace) = 1
        /\ Len(FnCalls) = 1
        /\ FnCalls[1].clients = NoneVal
        /\ ret = (IF FnCalls[1].raw = NoneVal
                  THEN ValidationResult(TRUE, <<>>) ELSE FnCalls[1].raw)

\* C2 witness: the users list is present and empty, the function was called
\* once with None and its invalid result came back.
WitC2_EmptyUsers ==
    /\ last = "validate"
    /\ "openstack" \in DOMAIN credentials
    /\ "users" \in DOMAIN credentials["openstack"]
    /\ Len(PlatformUsers) = 0
    /\ Len(FnCalls) = 1
    /\ FnCalls[1].clients = NoneVal
    /\ IsInvalid(ret)
    /\ ret = FnCalls[1].raw

\* C3: an invocation in which the wrapped function returns nothing yields a
\* valid per-call result, and when the function returns nothing for every
\* user, validate evaluates every user and returns success.
ThmC3_NothingIsValid ==
    (last = "validate") =>
        /\ \A j \in 1..Len(FnCalls) :
               FnCalls[j].raw = NoneVal => IsValid(FnCalls[j].result)
        /\ (\A i \in 1..Len(PlatformUsers) :
                CallFn(self.fn, config, PlatformUsers[i].credential.clients,
                       credentials, self.args, self.kwargs) = NoneVal)
           /\ Len(PlatformUsers) > 0
           => /\ IsValid(ret)
              /\ Len(FnCalls) = Len(PlatformUsers)

\* C3 witness: two users, the function returned nothing for both, success.
WitC3_AllNothing ==
    /\ last = "validate"
    /\ Len(PlatformUsers) = 2
    /\ Len(FnCalls) = 2
    /\ FnCalls[1].raw = NoneVal
    /\ FnCalls[2].raw = NoneVal
    /\ IsValid(ret)

\* the (name, args, kwargs) tuple a decorator application stands for
ExpectedEntry(d) ==
    IF "fn" \in DOMAIN d
    THEN [name |-> "old_validator", args |-> <<PyFn(d.fn)>> \o d.args,
          kwargs |-> d.kwargs]
    ELSE [name |-> d.name, args |-> d.args, kwargs |-> d.kwargs]

\* C4: after N decorator applications to a scenario class (legacy and
\* deprecated ones in any mix, duplicates included) its validators list has
\* exactly N entries, the i-th entry being that of the i-th application.
ThmC4_OrderAndLength ==
    \A s \in Scenarios :
        /\ Len(validators(s)) = Len(applied[s])
        /\ \A i \in 1..Len(applied[s]) :
               validators(s)[i] = ExpectedEntry(applied[s][i])

\* C4 witness: CreateAndListImage decorated with required_services first and
\* restricted_parameters next (twice): three entries, in that order.
WitC4_CreateAndListImage ==
    LET v == validators("CreateAndListImage")
        a == applied["CreateAndListImage"]
    IN  /\ Len(a) = 3
        /\ a[1].fn = "required_services"
        /\ a[2].fn = "restricted_parameters"
        /\ a[3] = a[2]
        /\ Len(v) = 3
        /\ v[1].args[1] = PyFn("required_services")
        /\ v[2].args[1] = PyFn("restricted_parameters")
        /\ v[3] = v[2]

\* C5: applying a decorator to a scenario invokes no rule function and calls
\* no collaborator, appends exactly one entry to that scenario's validators
\* list (for a legacy rule: "old_validator", the function followed by the
\* bound args, the bound kwargs), creating the list when there is none,
\* leaves everything else alone and returns the scenario class it was given.
ThmC5_AttachOnly ==
    [][last' \in {"wrap_scenario", "wrapper"} =>
          LET s == given'.names[1]
              d == applied'[s][Len(applied'[s])]
              before == Get(meta[s], "validators", <<>>)
          IN  /\ applied' = [applied EXCEPT ![s] = Append(@, d)]
              /\ trace' = <<>>
              /\ ret' = given'
              /\ DOMAIN meta'[s] = {"validators"}
              /\ meta'[s]["validators"] = Append(before, ExpectedEntry(d))
              /\ \A t \in Scenarios \ {s} : meta'[t] = meta[t]
              /\ UNCHANGED <<self, credentials, config, readable>>]_vars

\* C5 witness: the first decoration of ListImages by a legacy rule created
\* its list with one entry and returned ListImages, with no call made.
WitC5_FirstUse ==
    /\ last = "wrap_scenario"
    /\ ret = PyClass("ListImages")
    /\ trace = <<>>
    /\ Len(validators("ListImages")) = 1
    /\ validators("ListImages")[1].name = "old_validator"
    /\ validators("ListImages")[1].args =
           <<PyFn("restricted_parameters"), PyList(<<"image_name", "name">>)>>

\* C6: a validation pass leaves the validators lists, the adapter's bound
\* function, args and kwargs, and the configuration document as they were.
ThmC6_ReadOnlyPass ==
    [][last' = "validate" =>
          /\ meta' = meta
          /\ self' = self
          /\ config' = config]_vars

\* C6 witness: a pass of restricted_parameters over a document without an
\* args mapping has ended valid, for a scenario with attached validators.
WitC6_PassDone ==
    /\ last = "validate"
    /\ self.fn = "restricted_parameters"
    /\ "args" \notin DOMAIN config
    /\ IsValid(ret)
    /\ Len(validators("CreateAndListImage")) = 2

\* ------------------------------------------------ properties of the rules
\* the rule function fn has just been applied through _run_fn
RuleRan(fn) == last = "_run_fn" /\ self.fn = fn
\* what the rule function itself returned
Raw == trace[1].raw
\* the client set the rule function was applied to
RuleClients == trace[1].clients
\* the characters of a string given as tokens
RECURSIVE Flat(_)
Flat(tokens) == IF Len(tokens) = 0 THEN "" ELSE tokens[1] \o Flat(Tail(tokens))
\* tokens.split(sep)
RECURSIVE Split(_, _)
Split(tokens, sep) ==
    IF Len(tokens) = 0 THEN << <<>> >>
    ELSE LET rest == Split(Tail(tokens), sep)
         IN  IF Head(tokens) = sep THEN << <<>> >> \o rest
             ELSE << <<Head(tokens)>> \o rest[1] >> \o Tail(rest)

\* C7: restricted_parameters fails exactly when one of the names is a key of
\* config["args"] (of config["args"][subdict] when subdict is given), a
\* missing mapping counting as empty; it returns nothing otherwise; the
\* message lists the offending names, all of them and no other.
ThmC7_RestrictedParameters ==
    RuleRan("restricted_parameters") =>
        LET names == Range(self.args[1].names)
            sub == IF Len(self.args) >= 2 THEN self.args[2]
                   ELSE IF "subdict" \in DOMAIN self.kwargs
                   THEN self.kwargs["subdict"] ELSE NoneVal
            args == IF "args" \in DOMAIN config THEN config["args"] ELSE <<>>
            keys == IF sub.kind = "None" THEN DOMAIN args
                    ELSE IF sub.names[1] \in DOMAIN args
                    THEN DOMAIN args[sub.names[1]] ELSE {}
            offending == names \cap keys
        IN  /\ IsInvalid(Raw) <=> offending # {}
            /\ offending = {} => (Raw = NoneVal /\ IsValid(ret))
            /\ IsInvalid(Raw) =>
                   /\ ret = Raw
                   /\ \A n \in ParamNames :
                          n \in Range(Raw.msg) <=> n \in offending

\* C7 witness: both names are keys of the kwargs sub-mapping and both are
\* listed.
WitC7_BothListed ==
    /\ RuleRan("restricted_parameters")
    /\ self.args = <<PyList(<<"image_name", "name">>)>>
    /\ self.kwargs = ("subdict" :> PyStr("kwargs"))
    /\ "args" \in DOMAIN config
    /\ "kwargs" \in DOMAIN config["args"]
    /\ DOMAIN config["args"]["kwargs"] = {"image_name", "name"}
    /\ IsInvalid(Raw)
    /\ Flat(Raw.msg) =
           "You can't specify parameters 'image_name, name' in 'kwargs'"

\* required_services over a set of available services: it passes exactly
\* when every required service is available or has service_type or
\* service_name declared under context.api_versions.<service>, and on
\* failure the message names the first required service that is neither.
ServicesRuleOver(available) ==
    LET required == [i \in 1..Len(self.args) |-> self.args[i].names[1]]
        context == IF "context" \in DOMAIN config THEN config["context"]
                   ELSE <<>>
        api == IF "api_versions" \in DOMAIN context
               THEN context["api_versions"] ELSE <<>>
        Declared(s) == /\ s \in DOMAIN api
                       /\ DOMAIN api[s] \cap {"service_type", "service_name"}
                              # {}
        Ok(s) == s \in available \/ Declared(s)
        bad == {i \in 1..Len(required) : ~Ok(required[i])}
        first == CHOOSE i \in bad : \A j \in bad : i <= j
    IN  /\ Raw = NoneVal <=> bad = {}
        /\ Raw # NoneVal =>
               /\ IsInvalid(Raw)
               /\ Range(Raw.msg) \cap ServiceNames = {required[first]}

\* nova-network counts as available when it is required and the nova service
\* list of the admin has an enabled nova-network binary
AdminNovaNet ==
    LET nova == credentials["openstack"].admin.clients.nova_services
    IN  IF /\ \E i \in 1..Len(self.args) : self.args[i].names[1] = NOVA_NET
           /\ \E i \in 1..Len(nova) :
                  nova[i].binary = NOVA_NET /\ nova[i].status = "enabled"
        THEN {NOVA_NET} ELSE {}

\* C8 as stated: the available services are those of the client-handle-set.
CexC8_ClientServicesOnly ==
    (RuleRan("required_services") /\ Raw.kind # "raise") =>
        ServicesRuleOver(Range(RuleClients.services))

\* C8 amended: the available services are those of the client-handle-set
\* and, when nova-network is required and the admin's nova service list has
\* an enabled nova-network binary, nova-network.
ThmC8_RequiredServices ==
    RuleRan("required_services") =>
        /\ Raw.kind # "raise"
        /\ ServicesRuleOver(Range(RuleClients.services) \cup AdminNovaNet)

\* C8 witness: nova-network is available through the admin only, glance has
\* a version-only api_versions entry: the rule fails and names glance.
WitC8_VersionOnlyDoesNotBypass ==
    /\ RuleRan("required_services")
    /\ self.args = <<PyStr(NOVA_NET), PyStr(GLANCE)>>
    /\ RuleClients.services = EmptyDict
    /\ AdminNovaNet = {NOVA_NET}
    /\ "context" \in DOMAIN config
    /\ "api_versions" \in DOMAIN config["context"]
    /\ GLANCE \in DOMAIN config["context"]["api_versions"]
    /\ DOMAIN config["context"]["api_versions"][GLANCE] = {"version"}
    /\ IsInvalid(Raw)
    /\ Raw.msg[2] = GLANCE

\* the context names given to required_contexts that the context lacks, in
\* argument order
MissingSpecs ==
    LET keys == IF "context" \in DOMAIN config THEN DOMAIN config["context"]
                ELSE {}
        Sat(item) == IF item.kind = "tuple"
                     THEN \E m \in Range(item.names) : m \in keys
                     ELSE item.names[1] \in keys
    IN  SelectSeq(self.args, LAMBDA item : ~Sat(item))
\* the comma-separated parts of the list that ends the failure message
MissingParts == Split(SubSeq(Raw.msg, 3, Len(Raw.msg)), ", ")

\* C9: required_contexts returns nothing exactly when every plain name is a
\* key of the context and every tuple has a member that is (a missing
\* context mapping counting as empty); otherwise it fails and the message
\* lists, comma-joined and in argument order, every missing name and group.
ThmC9_RequiredContexts ==
    RuleRan("required_contexts") =>
        /\ Raw = NoneVal <=> Len(MissingSpecs) = 0
        /\ Raw # NoneVal =>
               /\ IsInvalid(Raw)
               /\ ret = Raw
               /\ Len(MissingParts) = Len(MissingSpecs)
               /\ \A k \in 1..Len(MissingSpecs) :
                      IF MissingSpecs[k].kind = "tuple"
                      THEN Range(MissingParts[k]) \cap ContextNames
                               = Range(MissingSpecs[k].names)
                      ELSE MissingParts[k] = MissingSpecs[k].names

\* C9 witness: no context mapping at all, a name and a group are both
\* reported, in argument order.
WitC9_BothReported ==
    /\ RuleRan("required_contexts")
    /\ self.args = <<PyStr("net"), PyTuple(<<"a", "b">>)>>
    /\ "context" \notin DOMAIN config
    /\ IsInvalid(Raw)
    /\ Len(MissingParts) = 2
    /\ MissingParts[1] = <<"net">>
    /\ Range(MissingParts[2]) \cap ContextNames = {"a", "b"}

\* C10 as stated: a missing group of two or more names is listed with each
\* member quoted on its own, the quoted names joined by " or ".
CexC10_EachMemberQuoted ==
    RuleRan("required_contexts") =>
        \A k \in 1..Len(MissingSpecs) :
            (MissingSpecs[k].kind = "tuple" /\ Len(MissingSpecs[k].names) >= 2)
            => Flat(MissingParts[k]) =
                   Flat(Join([i \in 1..Len(MissingSpecs[k].names) |->
                                 <<"'", MissingSpecs[k].names[i], "'">>],
                             <<" or ">>))

\* C10 amended: a missing group is listed as its member names joined by
\* " or ", the whole between one pair of single quotes: 'a or b'.
ThmC10_GroupQuotedAsWhole ==
    RuleRan("required_contexts") =>
        \A k \in 1..Len(MissingSpecs) :
            MissingSpecs[k].kind = "tuple" =>
                /\ Flat(MissingParts[k]) =
                       "'" \o Flat(Join(Strs(MissingSpecs[k].names),
                                        <<" or ">>)) \o "'"
                /\ MissingSpecs[k].names = <<"a", "b">> =>
                       Flat(MissingParts[k]) = "'a or b'"

\* C10 witness: context {"net"} and the group ("a", "b"): the message ends
\* with 'a or b'.
WitC10_AorB ==
    /\ RuleRan("required_contexts")
    /\ self.args = <<PyStr("net"), PyTuple(<<"a", "b">>)>>
    /\ "context" \in DOMAIN config
    /\ DOMAIN config["context"] = {"net"}
    /\ IsInvalid(Raw)
    /\ Flat(Raw.msg) = "The following contexts are required but missing from "
                       \o "the benchmark configuration file: 'a or b'"

\* C18: in a pass over a non-empty user list, clients() is called for every
\* user, in list order, before the wrapped function is invoked at all: the
\* calls of the pass are the resolutions of users 1..n followed by the
\* invocations of the function, also for users the function never sees.
ThmC18_EagerClients ==
    (last = "validate" /\ Len(PlatformUsers) > 0) =>
        LET n == Len(PlatformUsers)
        IN  /\ Len(ClientsCalls) = n
            /\ Len(trace) = n + Len(FnCalls)
            /\ \A i \in 1..n : trace[i] = [ev |-> "clients", user |-> i]
            /\ \A k \in (n + 1)..Len(trace) : trace[k].ev = "fn"

\* C18 witness: two users, the first fails: the client set of the second was
\* resolved although the function was invoked for the first user only.
WitC18_SecondResolvedNotEvaluated ==
    /\ last = "validate"
    /\ Len(PlatformUsers) = 2
    /\ IsInvalid(ret)
    /\ Len(trace) = 3
    /\ trace[1] = [ev |-> "clients", user |-> 1]
    /\ trace[2] = [ev |-> "clients", user |-> 2]
    /\ trace[3].ev = "fn"
    /\ trace[3].user = 1

\* --------------------------------------- properties of check_command_dict
\* check_command_dict has just been applied to a dictionary
CommandChecked == last = "check_command_dict" /\ IsDict(CommandArg)
\* the value of a key of the command, None when the key is absent
CommandGet(key) == Get(CommandArg, key, NoneVal)
IsValueError(r) == r.kind = "raise" /\ r.exc = "ValueError"

\* C11: a command dictionary that check_command_dict accepts has exactly one
\* of the two command forms: with an interpreter it has a script
\* (script_file or script_inline) and no remote_path unless a local_path is
\* uploaded to it, without an interpreter it has a remote_path.
CexC11_ExactlyOneForm ==
    (CommandChecked /\ ret = NoneVal) =>
        IF Truthy(CommandGet("interpreter"))
        THEN /\ \/ Truthy(CommandGet("script_file"))
                \/ "script_inline" \in DOMAIN CommandArg
             /\ Truthy(CommandGet("remote_path"))
                    => Truthy(CommandGet("local_path"))
        ELSE Truthy(CommandGet("remote_path"))

Malformed(command) ==
    \/ ~IsDict(command)
    \/ /\ ~Truthy(Get(command, "interpreter", NoneVal))
       /\ ~Truthy(Get(command, "remote_path", NoneVal))
    \/ /\ Truthy(Get(command, "interpreter", NoneVal))
       /\ Truthy(Get(command, "script_file", NoneVal))
       /\ "script_inline" \in DOMAIN command
    \/ \E k \in DOMAIN command :
           k \notin {"script_file", "script_inline", "interpreter",
                     "remote_path", "local_path", "command_args"}
IsNone(v) == ~IsDict(v) /\ v.kind = "None"
\* the required argument valid_command is bound to, True when not given
RequiredArg ==
    IF Len(self.args) >= 2 THEN self.args[2]
    ELSE Get(self.kwargs, "required", PyBool(TRUE))
\* valid_command has been applied to a malformed command it has to check
MalformedChecked ==
    /\ RuleRan("valid_command")
    /\ Malformed(CommandArg)
    /\ ~(IsNone(CommandArg) /\ ~Truthy(RequiredArg))

\* C13 as stated: a malformed command makes valid_command raise; the error
\* is never turned into an invalid outcome.
CexC13_MalformedRaises ==
    MalformedChecked => ret.kind = "raise"

\* C13 amended: a malformed command never makes valid_command raise; the
\* ValueError is caught inside the rule and returned as an invalid outcome
\* whose message is the message of the error.
ThmC13_MalformedIsSoftFailure ==
    MalformedChecked =>
        /\ IsInvalid(ret)
        /\ ret = Raw
        /\ ret.msg[1] \in {"Command must be a dictionary",
                           "Exactly one of script_inline or script_file ",
                           "When uploading an interpreter its path ",
                           "Supplied dict specifies no command to execute,",
                           "Unexpected command parameters: "}

\* C13 witness: the command "foo", not a dictionary, was reported as an
\* invalid outcome.
WitC13_NotADict ==
    /\ MalformedChecked
    /\ CommandArg = PyStr("foo")
    /\ ret = ValidationResult(FALSE, <<"Command must be a dictionary">>)

\* ------------------------------------------------ properties of flavor_exists
FlavorArg == Get(Get(config, "args", EmptyDict), "flavor", NoneVal)
\* what the client lookup of the flavor argument reports: the flavor, or the
\* exception of the transformation or of the request
ClientLookup ==
    LET flavor_id == Flavor_transform(RuleClients, FlavorArg)
    IN  IF flavor_id.kind = "raise" THEN flavor_id
        ELSE flavors_get(RuleClients, flavor_id)
ClientResolves == "kind" \notin DOMAIN ClientLookup
ClientNotFound ==
    /\ ~ClientResolves
    /\ ClientLookup.exc \in {"NotFound", "InvalidScenarioArgument"}
\* the flavors context declares exactly one flavor of the name (or pattern)
\* of the argument
ContextResolves ==
    LET context == Get(config, "context", EmptyDict)
        key == IF "name" \in DOMAIN FlavorArg THEN "name" ELSE "regex"
    IN  /\ "flavors" \in DOMAIN context
        /\ key \in DOMAIN FlavorArg
        /\ Cardinality({i \in DOMAIN context["flavors"] :
               context["flavors"][i]["name"] = FlavorArg[key]}) = 1

\* C14: flavor_exists passes if and only if the flavor argument is set and
\* either the client lookup resolves it or the lookup reports not-found or
\* invalid argument and the flavors declared in the context resolve it by
\* name; a not-found of the lookup and of the fallback (a missing flavors
\* context included) is never raised, it is the invalid outcome
\* "Flavor '<raw spec>' not found".
ThmC14_FlavorExists ==
    RuleRan("flavor_exists") =>
        /\ IsValid(ret) <=>
               /\ Truthy(FlavorArg)
               /\ \/ ClientResolves
                  \/ ClientNotFound /\ ContextResolves
        /\ (Truthy(FlavorArg) /\ ClientNotFound /\ ~ContextResolves) =>
               ret = ValidationResult(FALSE,
                         <<"Flavor '", ToStr(FlavorArg), "' not found">>)
        /\ ret.kind = "raise" =>
               ret.exc \notin {"NotFound", "InvalidScenarioArgument"}

\* C14 witness: nova does not know the flavor named ctx and no flavors
\* context is declared; the rule reported the flavor as not found.
WitC14_NoFlavorsContext ==
    /\ RuleRan("flavor_exists")
    /\ FlavorArg = ("name" :> PyStr("ctx"))
    /\ ClientLookup = Raise("InvalidScenarioArgument")
    /\ "context" \notin DOMAIN config
    /\ IsInvalid(ret)
    /\ Flat(ret.msg) = "Flavor '{'name': 'ctx'}' not found"

\* ------------------------------------------- properties of volume_type_exists
VolumeTypeArg == Get(Get(config, "args", EmptyDict), "volume_type", NoneVal)
\* the argument names a volume type that cinder does not list
NamedTypeNotListed ==
    /\ VolumeTypeArg.kind = "str"
    /\ Truthy(VolumeTypeArg)
    /\ \A i \in DOMAIN RuleClients.volume_types :
           RuleClients.volume_types[i] # VolumeTypeArg.names[1]

\* C15 as stated: when the argument names a volume type that is not among
\* the volume types the client lists, the rule returns an invalid "not found"
\* outcome carrying the raw argument value.
CexC15_NamedTypeNotFound ==
    (RuleRan("volume_type_exists") /\ NamedTypeNotListed) =>
        /\ IsInvalid(ret)
        /\ \E i \in DOMAIN ret.msg : ret.msg[i] = ToStr(VolumeTypeArg)

\* C15 amended: volume_type_exists fails if and only if the argument is set
\* (true) and the client lists no volume type at all; the outcome is then
\* "Must have at least one volume type created when specifying use of
\* volume types." and does not carry the argument. The argument is a flag:
\* with any volume type listed the rule passes whatever the argument names.
ThmC15_AnyVolumeType ==
    RuleRan("volume_type_exists") =>
        IF Truthy(VolumeTypeArg) /\ RuleClients.volume_types = <<>>
        THEN /\ IsInvalid(ret)
             /\ Flat(ret.msg) = "Must have at least one volume type created "
                                \o "when specifying use of volume types."
        ELSE Raw = NoneVal /\ IsValid(ret)

\* C15 witness: the argument names gold, cinder lists only silver, and the
\* rule passed.
WitC15_OtherTypePasses ==
    /\ RuleRan("volume_type_exists")
    /\ VolumeTypeArg = PyStr("gold")
    /\ RuleClients.volume_types = <<"silver">>
    /\ IsValid(ret)

\* --------------------------------------- properties of required_api_versions
\* the component and the accepted versions the rule is bound to
BoundComponent ==
    IF Len(self.args) >= 1 THEN self.args[1].names[1]
    ELSE self.kwargs["component"].names[1]
BoundVersions ==
    IF Len(self.args) >= 2 THEN self.args[2].names
    ELSE self.kwargs["versions"].names
\* context.api_versions.<component>, empty when not declared
DeclaredEntry ==
    Get(Get(Get(config, "context", EmptyDict), "api_versions", EmptyDict),
        BoundComponent, EmptyDict)
\* the version in use: the declared one when declared, else the version the
\* client resolves
VersionInUse ==
    IF "version" \in DOMAIN DeclaredEntry THEN DeclaredEntry["version"]
    ELSE RuleClients.versions[BoundComponent]

\* C16: for a component other than keystone, required_api_versions passes if
\* and only if the version in use (the one declared in
\* context.api_versions.<component>.version when declared, else the one the
\* client resolves) is determined, i.e. not None, empty or 0, and its string
\* form is the string form of one of the accepted versions; an undetermined
\* version fails with "Unable to determine the API version.".
ThmC16_ApiVersions ==
    (RuleRan("required_api_versions") /\ BoundComponent # "keystone") =>
        /\ IsValid(ret) <=>
               /\ Truthy(VersionInUse)
               /\ \E i \in DOMAIN BoundVersions :
                      ToStr(BoundVersions[i]) = ToStr(VersionInUse)
        /\ ~Truthy(VersionInUse) =>
               ret = ValidationResult(FALSE,
                         <<"Unable to determine the API version.">>)

\* C16 witness: the declared version is the number 2, the client resolves
\* "1", the accepted versions are "2" given as a string; the rule passed.
WitC16_DeclaredNumberAcceptedString ==
    /\ RuleRan("required_api_versions")
    /\ BoundComponent = "nova"
    /\ "version" \in DOMAIN DeclaredEntry
    /\ VersionInUse = PyInt(2)
    /\ RuleClients.versions["nova"] = PyStr("1")
    /\ BoundVersions = <<PyStr("2")>>
    /\ IsValid(ret)

\* ------------------------------------------------ properties of a repeated run
\* the last validate was a repetition of a validate on the same inputs
RanTwice == last = "validate" /\ prev # NoneVal

====
